---- MODULE Spec2Model ----
(***************************************************************************)
(* Lending library: the business-rule layer (lending-library.ts) on top of *)
(* the storage-access layer (library-dao.ts).  Every request handler is an *)
(* async function; each store round-trip (await) is one atomic step, and   *)
(* the handler code that runs between two awaits is part of the step that  *)
(* precedes it.                                                            *)
(***************************************************************************)
EXTENDS Integers, Sequences, FiniteSets, TLC

\* ------------------------------------------------------------- bounds
MaxReqCopies == 2  \* largest nCopies of an addBook request
MaxAdded == 2      \* no new addBook is issued for an isbn beyond this total
MaxCopies == 2     \* no new returnBook is issued once nCopies reached this
MaxBadFields == 2  \* an addBook request has at most this many faulty fields
MaxIndex == 1      \* largest index of a findBooks request
MaxCount == 2      \* largest count of a findBooks request

Procs == {1, 2}   \* request handlers that may be in flight at once
Isbns == {"i1", "i2"}
RaceIsbns == {"i1"}
PatronIds == {"p1", "p2"}

\* a string is the sequence of its characters
Ab == <<"a", "b">>
Cd == <<"c", "d">>
Titles == {Ab, Cd}
RaceTitles == {Ab}
RaceAuthors == {<<Cd>>}
\* titles and authors of the catalogs that are searched: "Cd ab", "ab";
\* ["cd"], ["ab", "cd"]
FindTitles == {<<"C", "d", " ", "a", "b">>, Ab}
FindAuthors == {<<Cd>>, <<Ab, Cd>>}

\* a request field that is absent, empty or not a string
Falsy == ""

\* ------------------------------------------------------------- state
VARIABLES
    books,    \* the books collection: documents in insertion order
    patrons,  \* the patrons collection, keyed by its unique id
    pc,       \* per handler: the store round-trip it is about to make
    req,      \* per handler: the request it serves
    res,      \* per handler: the code of the result it returned
    out,      \* per handler: the books of the result it returned
    dao,      \* per handler: the code of the result the DAO returned to it
    pre,      \* per handler: what the store held for the request at its start
    added,    \* per isbn: copies added by successful addBook since the last clear
    lent,     \* per isbn: decrements applied minus increments applied by
              \* checkoutBook/returnBook since the last clear
    granted,  \* (patron, isbn) pairs of a successful checkoutBook that no
              \* successful returnBook and no clear has followed
    last,     \* the request completed last, when it was a successful checkoutBook
    track     \* whether the handlers keep their request after returning and
              \* pre and last are recorded (one request at a time)

vars == <<books, patrons, pc, req, res, out, dao, pre, added, lent, granted, last, track>>

\* ------------------------------------------------------------- store
\* position of the first document with this isbn, 0 when there is none
FindOne(coll, isbn) ==
    IF \E k \in DOMAIN coll : coll[k].isbn = isbn
    THEN CHOOSE k \in DOMAIN coll :
            /\ coll[k].isbn = isbn
            /\ \A j \in DOMAIN coll : coll[j].isbn = isbn => k <= j
    ELSE 0

\* a $set where the $inc belongs
IncCopiesOverwrite(coll, isbn, d) ==
    [k \in DOMAIN coll |->
        IF k = FindOne(coll, isbn)
        THEN [coll[k] EXCEPT !.nCopies = d]
        ELSE coll[k]]

\* updateOne({isbn}, {$inc: {nCopies: d}}): the first match only, no upsert
IncCopies(coll, isbn, d) ==
    [k \in DOMAIN coll |->
        IF k = FindOne(coll, isbn)
        THEN [coll[k] EXCEPT !.nCopies = @ + d]
        ELSE coll[k]]

\* the index on isbn created without {unique: true}
UniqueIsbnUnindexed(coll, isbn) == FALSE

\* the unique index on isbn created by LibraryDao.make
UniqueIsbnViolated(coll, isbn) == FindOne(coll, isbn) # 0

\* insertOne(book)
InsertOne(coll, book) == Append(coll, book)

\* updateOne({id}, {$addToSet: {checkedOutBooks: isbn}}, {upsert: true})
AddToSet(coll, id, isbn) ==
    [coll EXCEPT ![id] = [exists |-> TRUE,
                           checkedOutBooks |-> @.checkedOutBooks \cup {isbn}]]

\* the $pull left out
PullNothing(coll, id, isbn) == coll

\* updateOne({id}, {$pull: {checkedOutBooks: isbn}})
Pull(coll, id, isbn) ==
    [coll EXCEPT ![id].checkedOutBooks = @ \ {isbn}]

NoPatron == [exists |-> FALSE, checkedOutBooks |-> {}]

\* the includes() test left out
HoldsUnchecked(coll, id, isbn) == FALSE

\* a membership test that only asks whether the patron has a record
HoldsAnyRecord(coll, id, isbn) == coll[id].exists

\* patron && patron.checkedOutBooks.includes(isbn)
Holds(coll, id, isbn) == coll[id].exists /\ isbn \in coll[id].checkedOutBooks

\* ------------------------------------------------------------- observers
Records(coll, isbn) == {k \in DOMAIN coll : coll[k].isbn = isbn}
HasBook(coll, isbn) == FindOne(coll, isbn) # 0
CopiesOf(coll, isbn) ==
    IF HasBook(coll, isbn) THEN coll[FindOne(coll, isbn)].nCopies ELSE 0
TitleOf(coll, isbn) ==
    IF HasBook(coll, isbn) THEN coll[FindOne(coll, isbn)].title ELSE <<>>
Holders(coll, isbn) == {id \in PatronIds : Holds(coll, id, isbn)}
Quiet(p) == pc[p] \in {"idle", "done"}

\* the classes of a field of an addBook request: not in the request; of
\* another type than the field's; of the field's type and failing the check
\* made on its value; passing every check
FieldClasses == {"absent", "wrongType", "invalid", "ok"}
RequiredFields == {"isbn", "title", "pages", "authors", "publisher", "year", "nCopies"}
AllOk == [f \in RequiredFields |-> "ok"]
ValidShapes == {AllOk}
BadFields(shape) == {f \in RequiredFields : shape[f] # "ok"}
AddBookShapes ==
    {sh \in [RequiredFields -> FieldClasses] :
        Cardinality(BadFields(sh)) <= MaxBadFields}

\* the values of the search, index and count fields of a findBooks request
Absent == [kind |-> "absent", val |-> 0]
Other == [kind |-> "other", val |-> 0]     \* neither a string nor a number
Number(n) == [kind |-> "number", val |-> n]
String(chars) == [kind |-> "string", val |-> chars]

NoReq == [op |-> "none", patronId |-> Falsy, isbn |-> Falsy, title |-> <<>>,
          authors |-> <<>>, nCopies |-> 0, shape |-> AllOk,
          search |-> Absent, index |-> Absent, count |-> Absent]
NoLast == [patronId |-> Falsy, isbn |-> Falsy, nCopies |-> 0]

\* what the store and the history hold when a request starts
Snapshot == [books |-> books, patrons |-> patrons, granted |-> granted, last |-> last]

NoSnapshot == [books |-> <<>>, patrons |-> [id \in PatronIds |-> NoPatron],
               granted |-> {}, last |-> NoLast]

InitStore ==
    /\ books = <<>>
    /\ patrons = [id \in PatronIds |-> NoPatron]
    /\ pc = [p \in Procs |-> "idle"]
    /\ req = [p \in Procs |-> NoReq]
    /\ res = [p \in Procs |-> "none"]
    /\ out = [p \in Procs |-> <<>>]
    /\ dao = [p \in Procs |-> "none"]
    /\ pre = [p \in Procs |-> NoSnapshot]
    /\ added = [i \in Isbns |-> 0]
    /\ lent = [i \in Isbns |-> 0]
    /\ granted = {}
    /\ last = NoLast

Init == InitStore /\ track = FALSE
InitSeq == InitStore /\ track = TRUE

\* ------------------------------------------------------------- control
\* the handler issues its next store call
Goto(p, label) ==
    /\ pc' = [pc EXCEPT ![p] = label]
    /\ UNCHANGED <<req, res, out, dao, last, track>>

\* the handler returns a result with this code to its caller
Return(p, code) ==
    /\ pc' = [pc EXCEPT ![p] = "done"]
    /\ res' = [res EXCEPT ![p] = code]
    /\ req' = IF track THEN req ELSE [req EXCEPT ![p] = NoReq]
    /\ last' = IF track /\ req[p].op = "checkoutBook" /\ code = "OK"
               THEN [patronId |-> req[p].patronId, isbn |-> req[p].isbn,
                     nCopies |-> CopiesOf(pre[p].books, req[p].isbn)]
               ELSE NoLast
    /\ UNCHANGED track

\* a request arrives at an idle handler, which issues its first store call
Accept(p, r, label) ==
    /\ Quiet(p)
    /\ req' = [req EXCEPT ![p] = r]
    /\ pre' = IF track
              THEN [pre EXCEPT ![p] = Snapshot]
              ELSE pre
    /\ pc' = [pc EXCEPT ![p] = label]
    /\ dao' = [dao EXCEPT ![p] = "none"]
    /\ UNCHANGED <<res, out, last, track>>

\* a handler that calls its DAO method before it checks the request
RejectAfterDaoCall(p, r, code) ==
    /\ Quiet(p)
    /\ req' = IF track THEN [req EXCEPT ![p] = r] ELSE [req EXCEPT ![p] = NoReq]
    /\ pre' = IF track
              THEN [pre EXCEPT ![p] = Snapshot]
              ELSE pre
    /\ pc' = [pc EXCEPT ![p] = "done"]
    /\ res' = [res EXCEPT ![p] = code]
    /\ out' = [out EXCEPT ![p] = <<>>]
    /\ dao' = [dao EXCEPT ![p] = "BAD_REQ"]
    /\ last' = NoLast
    /\ UNCHANGED track

\* a request arrives at an idle handler, which returns without any store call
Reject(p, r, code) ==
    /\ Quiet(p)
    /\ req' = IF track THEN [req EXCEPT ![p] = r] ELSE [req EXCEPT ![p] = NoReq]
    /\ pre' = IF track
              THEN [pre EXCEPT ![p] = Snapshot]
              ELSE pre
    /\ pc' = [pc EXCEPT ![p] = "done"]
    /\ res' = [res EXCEPT ![p] = code]
    /\ out' = [out EXCEPT ![p] = <<>>]
    /\ dao' = [dao EXCEPT ![p] = "none"]
    /\ last' = NoLast
    /\ UNCHANGED track

\* ------------------------------------------------------------- results
\* LendingLibrary.addBook returns the DAO's result as it is
AddBookResult(daoCode) == daoCode

\* LendingLibrary.findBooks returns the DAO's result as it is
FindBooksResult(daoCode) == daoCode

\* LendingLibrary.checkoutBook and returnBook: any DAO failure is re-coded
LendingResult(daoCode) == IF daoCode = "OK" THEN "OK" ELSE "BAD_REQ"

\* LendingLibrary.clear awaits the DAO and ignores the result it gets
ClearResult(daoCode) == "OK"

\* what the LendingLibrary method makes of the result of its DAO call
ServiceResult(op, daoCode) ==
    CASE op = "addBook" -> AddBookResult(daoCode)
      [] op = "findBooks" -> FindBooksResult(daoCode)
      [] op = "clear" -> ClearResult(daoCode)
      [] OTHER -> LendingResult(daoCode)

\* the DAO method returns a result with this code, and the LendingLibrary
\* method returns what it makes of it
DaoReturnValue(p, daoCode, val) ==
    /\ dao' = [dao EXCEPT ![p] = daoCode]
    /\ out' = [out EXCEPT ![p] = val]
    /\ Return(p, ServiceResult(req[p].op, daoCode))

\* a result that carries no books to the caller
DaoReturn(p, daoCode) == DaoReturnValue(p, daoCode, <<>>)

\* ------------------------------------------------------------- addBook
\* the checks of LendingLibrary.addBook on the fields of its request, in
\* the order it makes them: the code of the first that fails
AddBookCheck(shape) ==
    CASE \E f \in RequiredFields : shape[f] = "absent" -> "MISSING"
      [] OTHER ->
    CASE shape["isbn"] = "wrongType" -> "BAD_TYPE"
      [] OTHER ->
    CASE shape["isbn"] = "invalid" -> "BAD_REQ"
      [] OTHER ->
    CASE shape["title"] = "wrongType" -> "BAD_TYPE"
      [] OTHER ->
    CASE shape["title"] = "invalid" -> "BAD_REQ"
      [] OTHER ->
    CASE shape["pages"] \in {"wrongType", "invalid"} -> "BAD_TYPE"
      [] OTHER ->
    CASE shape["authors"] = "wrongType" -> "BAD_TYPE"
      [] OTHER ->
    CASE shape["authors"] = "invalid" -> "BAD_REQ"
      [] OTHER ->
    CASE shape["publisher"] = "wrongType" -> "BAD_TYPE"
      [] OTHER ->
    CASE shape["publisher"] = "invalid" -> "BAD_REQ"
      [] OTHER ->
    CASE shape["year"] = "wrongType" -> "BAD_TYPE"
      [] OTHER ->
    CASE shape["year"] = "invalid" -> "BAD_REQ"
      [] OTHER ->
    CASE shape["nCopies"] \in {"wrongType", "invalid"} -> "BAD_TYPE"
      [] OTHER -> "OK"

\* a request whose fields have one of these shapes arrives; one that passes
\* the checks names an isbn, a title and authors of these sets
BeginAddBook(p, isbns, titles, authorss, shapes) ==
    \E sh \in shapes :
        /\ IF AddBookCheck(sh) # "OK"
           THEN Reject(p, [NoReq EXCEPT !.op = "addBook", !.shape = sh],
                       AddBookCheck(sh))
           ELSE \E i \in isbns, t \in titles, a \in authorss,
                   n \in 1..MaxReqCopies :
                    /\ added[i] + n <= MaxAdded
                    /\ Accept(p, [NoReq EXCEPT !.op = "addBook", !.isbn = i,
                                               !.title = t, !.authors = a,
                                               !.nCopies = n], "ab_find")
        /\ UNCHANGED <<books, patrons, added, lent, granted>>

\* existingBook = findOne({isbn})
AbFind(p) ==
    /\ pc[p] = "ab_find"
    /\ IF FindOne(books, req[p].isbn) # 0
       THEN Goto(p, "ab_update")
       ELSE Goto(p, "ab_insert")
    /\ UNCHANGED <<books, patrons, pre, added, lent, granted>>

\* updateOne({isbn}, {$inc: {nCopies: book.nCopies}}), then matchedCount
AbUpdate(p) ==
    /\ pc[p] = "ab_update"
    /\ IF FindOne(books, req[p].isbn) = 0
       THEN /\ DaoReturn(p, "DB")
            /\ UNCHANGED <<books, added>>
       ELSE /\ books' = IncCopies(books, req[p].isbn, req[p].nCopies)
            /\ added' = [added EXCEPT ![req[p].isbn] = @ + req[p].nCopies]
            /\ DaoReturn(p, "OK")
    /\ UNCHANGED <<patrons, pre, lent, granted>>

\* insertOne(book); a duplicate key makes it throw
AbInsert(p) ==
    /\ pc[p] = "ab_insert"
    /\ IF UniqueIsbnViolated(books, req[p].isbn)
       THEN /\ DaoReturn(p, "DB")
            /\ UNCHANGED <<books, added>>
       ELSE /\ books' = InsertOne(books, [isbn |-> req[p].isbn,
                                          title |-> req[p].title,
                                          authors |-> req[p].authors,
                                          nCopies |-> req[p].nCopies])
            /\ added' = [added EXCEPT ![req[p].isbn] = @ + req[p].nCopies]
            /\ DaoReturn(p, "OK")
    /\ UNCHANGED <<patrons, pre, lent, granted>>

\* ------------------------------------------------------------- checkoutBook
BeginCheckout(p, isbns) ==
    \E id \in PatronIds \cup {Falsy}, i \in isbns \cup {Falsy} :
        LET r == [NoReq EXCEPT !.op = "checkoutBook", !.patronId = id, !.isbn = i]
        IN  /\ IF id = Falsy \/ i = Falsy
               THEN Reject(p, r, "MISSING")
               ELSE Accept(p, r, "co_findBook")
        /\ UNCHANGED <<books, patrons, added, lent, granted>>

\* book.nCopies < 0 where <= 0 belongs
NoCopiesOffByOne(book) == book.nCopies < 0

\* book.nCopies <= 0
NoCopies(book) == book.nCopies <= 0

\* book = findOne({isbn}); !book; no copies
CoFindBook(p) ==
    /\ pc[p] = "co_findBook"
    /\ IF FindOne(books, req[p].isbn) = 0
       THEN DaoReturn(p, "BAD_REQ")
       ELSE IF NoCopies(books[FindOne(books, req[p].isbn)])
            THEN DaoReturn(p, "BAD_REQ")
            ELSE Goto(p, "co_findPatron")
    /\ UNCHANGED <<books, patrons, pre, added, lent, granted>>

\* patron = findOne({id}); patron && patron.checkedOutBooks.includes(isbn)
CoFindPatron(p) ==
    /\ pc[p] = "co_findPatron"
    /\ IF Holds(patrons, req[p].patronId, req[p].isbn)
       THEN DaoReturn(p, "BAD_REQ")
       ELSE Goto(p, "co_dec")
    /\ UNCHANGED <<books, patrons, pre, added, lent, granted>>

\* updateOne({isbn}, {$inc: {nCopies: -1}})
CoDec(p) ==
    /\ pc[p] = "co_dec"
    /\ books' = IncCopies(books, req[p].isbn, -1)
    /\ lent' = IF FindOne(books, req[p].isbn) # 0
               THEN [lent EXCEPT ![req[p].isbn] = @ + 1]
               ELSE lent
    /\ Goto(p, "co_hold")
    /\ UNCHANGED <<patrons, pre, added, granted>>

\* updateOne({id}, {$addToSet: {checkedOutBooks: isbn}}, {upsert: true})
CoHold(p) ==
    /\ pc[p] = "co_hold"
    /\ patrons' = AddToSet(patrons, req[p].patronId, req[p].isbn)
    /\ granted' = granted \cup {<<req[p].patronId, req[p].isbn>>}
    /\ DaoReturn(p, "OK")
    /\ UNCHANGED <<books, pre, added, lent>>

\* ------------------------------------------------------------- returnBook
BeginReturn(p, isbns) ==
    \E id \in PatronIds \cup {Falsy}, i \in isbns \cup {Falsy} :
        LET r == [NoReq EXCEPT !.op = "returnBook", !.patronId = id, !.isbn = i]
        IN  /\ i \in Isbns => CopiesOf(books, i) < MaxCopies
            /\ IF id = Falsy \/ i = Falsy
               THEN Reject(p, r, "MISSING")
               ELSE Accept(p, r, "rb_findPatron")
        /\ UNCHANGED <<books, patrons, added, lent, granted>>

\* patron = findOne({id}); !patron || !patron.checkedOutBooks.includes(isbn)
RbFindPatron(p) ==
    /\ pc[p] = "rb_findPatron"
    /\ IF ~Holds(patrons, req[p].patronId, req[p].isbn)
       THEN DaoReturn(p, "BAD_REQ")
       ELSE Goto(p, "rb_inc")
    /\ UNCHANGED <<books, patrons, pre, added, lent, granted>>

\* updateOne({isbn}, {$inc: {nCopies: 1}})
RbInc(p) ==
    /\ pc[p] = "rb_inc"
    /\ books' = IncCopies(books, req[p].isbn, 1)
    /\ lent' = IF FindOne(books, req[p].isbn) # 0
               THEN [lent EXCEPT ![req[p].isbn] = @ - 1]
               ELSE lent
    /\ Goto(p, "rb_pull")
    /\ UNCHANGED <<patrons, pre, added, granted>>

\* updateOne({id}, {$pull: {checkedOutBooks: isbn}})
RbPull(p) ==
    /\ pc[p] = "rb_pull"
    /\ patrons' = Pull(patrons, req[p].patronId, req[p].isbn)
    /\ granted' = granted \ {<<req[p].patronId, req[p].isbn>>}
    /\ DaoReturn(p, "OK")
    /\ UNCHANGED <<books, pre, added, lent>>

\* ------------------------------------------------------------- clear
BeginClear(p) ==
    /\ Accept(p, [NoReq EXCEPT !.op = "clear"], "cl_books")
    /\ UNCHANGED <<books, patrons, added, lent, granted>>

\* booksCollection.deleteMany({})
ClBooks(p) ==
    /\ pc[p] = "cl_books"
    /\ books' = <<>>
    /\ added' = [i \in Isbns |-> 0]
    /\ lent' = [i \in Isbns |-> 0]
    /\ Goto(p, "cl_patrons")
    /\ UNCHANGED <<patrons, pre, granted>>

\* patronCollection.deleteMany({})
ClPatrons(p) ==
    /\ pc[p] = "cl_patrons"
    /\ patrons' = [id \in PatronIds |-> NoPatron]
    /\ granted' = {}
    /\ DaoReturn(p, "OK")
    /\ UNCHANGED <<books, pre, added, lent>>

\* ------------------------------------------------------------- findBooks
DEFAULT_COUNT == 5

\* the characters \w matches
WordChars == {"a", "b", "c", "d", "z", "A", "B", "C", "D"}

\* the case folding of the regex option i
Lower(c) ==
    CASE c = "A" -> "a" [] c = "B" -> "b" [] c = "C" -> "c" [] c = "D" -> "d"
      [] OTHER -> c

\* the code unit of a character, which orders strings in a sort
CodeUnit(c) ==
    CASE c = " " -> 32
      [] c = "A" -> 65 [] c = "B" -> 66 [] c = "C" -> 67 [] c = "D" -> 68
      [] c = "a" -> 97 [] c = "b" -> 98 [] c = "c" -> 99 [] c = "d" -> 100
      [] c = "z" -> 122

\* chars.match(/\w{2,}/g) || []: the maximal runs of word characters that
\* are two or more long; run is the run being read, found the runs kept
RECURSIVE Scan(_, _, _)
Scan(chars, run, found) ==
    LET kept == IF Len(run) >= 2 THEN Append(found, run) ELSE found
    IN  IF chars = <<>>
        THEN kept
        ELSE IF Head(chars) \in WordChars
             THEN Scan(Tail(chars), Append(run, Head(chars)), found)
             ELSE Scan(Tail(chars), <<>>, kept)

SearchWords(chars) == Scan(chars, <<>>, <<>>)

\* searchWords.join('.*'), or the only word: the regex is kept as the
\* sequence of the words that '.*' separates
MultiWordSearch(searchWords) == searchWords

\* the word is read in chars from position k on, whatever the case
WordAt(word, chars, k) ==
    /\ k + Len(word) - 1 <= Len(chars)
    /\ \A j \in 1..Len(word) : Lower(chars[k + j - 1]) = Lower(word[j])

\* the regex matches somewhere in chars from position k on: its first word
\* is read at some position, and the rest matches after the end of it
RECURSIVE MatchFrom(_, _, _)
MatchFrom(regex, chars, k) ==
    IF regex = <<>>
    THEN TRUE
    ELSE \E j \in k..Len(chars) :
            /\ WordAt(Head(regex), chars, j)
            /\ MatchFrom(Tail(regex), chars, j + Len(Head(regex)))

\* {field: {$regex, $options: 'i'}} on a string
RegexTest(regex, chars) == MatchFrom(regex, chars, 1)

\* the $or of the query: the title matches, or an element of authors does
Matches(doc, regex) ==
    \/ RegexTest(regex, doc.title)
    \/ \E k \in DOMAIN doc.authors : RegexTest(regex, doc.authors[k])

\* find(query): the documents that the query selects
Find(coll, regex) == {coll[k] : k \in {j \in DOMAIN coll : Matches(coll[j], regex)}}

\* s comes before t in the order of their code units
RECURSIVE Before(_, _)
Before(s, t) ==
    IF t = <<>> THEN FALSE
    ELSE IF s = <<>> THEN TRUE
    ELSE IF CodeUnit(Head(s)) # CodeUnit(Head(t))
         THEN CodeUnit(Head(s)) < CodeUnit(Head(t))
         ELSE Before(Tail(s), Tail(t))

\* sort({title: 1}): the orders of the documents that ascend by title; the
\* store fixes no order among documents of one title
Sort(docs) ==
    {s \in [1..Cardinality(docs) -> docs] :
        /\ \A i, j \in DOMAIN s : i # j => s[i] # s[j]
        /\ \A i, j \in DOMAIN s : i < j => ~Before(s[j].title, s[i].title)}

\* skip(index)
Skip(docs, index) == SubSeq(docs, index + 1, Len(docs))

\* limit(count): the store takes a limit of 0 for no limit
Limit(docs, count) ==
    IF count = 0 \/ count >= Len(docs) THEN docs ELSE SubSeq(docs, 1, count)

\* typeof req.index === 'number' && req.index >= 0 ? req.index : 0
IndexOf(field) == IF field.kind = "number" /\ field.val >= 0 THEN field.val ELSE 0

\* the same for req.count, with DEFAULT_COUNT
CountOf(field) ==
    IF field.kind = "number" /\ field.val >= 0 THEN field.val ELSE DEFAULT_COUNT

\* the checks of LendingLibrary.findBooks on its request
FindBooksCheck(search) ==
    IF search.kind # "string" \/ search.val = <<>>
    THEN "MISSING"
    ELSE IF SearchWords(search.val) = <<>> THEN "BAD_REQ" ELSE "OK"

\* the values of search that arrive: nothing, 5, "", "a b", "ab"
AnySearches ==
    {Absent, Other, String(<<>>), String(<<"a", " ", "b">>), String(Ab)}
\* searches with words: "ab", "AB", "cd ab", "ab cd", "zz"
WordSearches ==
    {String(Ab), String(<<"A", "B">>), String(Cd \o <<" ">> \o Ab),
     String(Ab \o <<" ">> \o Cd), String(<<"z", "z">>)}
\* the values of index and count that arrive: nothing, "x", integers
AnyIndexes == {Absent, Other} \cup {Number(n) : n \in -1..MaxIndex}
AnyCounts == {Absent, Other} \cup {Number(n) : n \in -1..MaxCount}
\* the values of index and count that the interface admits
ValidIndexes == {Absent} \cup {Number(n) : n \in 0..MaxIndex}
ValidCounts == {Absent} \cup {Number(n) : n \in 0..MaxCount}

BeginFindBooks(p, searches, indexes, counts) ==
    \E s \in searches, ix \in indexes, ct \in counts :
        LET r == [NoReq EXCEPT !.op = "findBooks", !.search = s,
                               !.index = ix, !.count = ct]
        IN  /\ IF FindBooksCheck(s) # "OK"
               THEN Reject(p, r, FindBooksCheck(s))
               ELSE Accept(p, r, "fb_find")
            /\ UNCHANGED <<books, patrons, added, lent, granted>>

\* find(query).skip(index).limit(count).sort({title: 1}).toArray(): the
\* store sorts, then skips, then limits, in whatever order the cursor was
\* given them
FbFind(p) ==
    /\ pc[p] = "fb_find"
    /\ LET regex == MultiWordSearch(SearchWords(req[p].search.val))
           index == IndexOf(req[p].index)
           count == CountOf(req[p].count)
       IN  \E sorted \in Sort(Find(books, regex)) :
               DaoReturnValue(p, "OK", Limit(Skip(sorted, index), count))
    /\ UNCHANGED <<books, patrons, pre, added, lent, granted>>

\* ------------------------------------------------------------- store faults
StoreSteps == {"ab_find", "ab_update", "ab_insert", "fb_find",
               "co_findBook", "co_findPatron", "co_dec", "co_hold",
               "rb_findPatron", "rb_inc", "rb_pull",
               "cl_books", "cl_patrons"}

\* the pending store call throws; the DAO's catch turns it into a DB result
StoreFault(p) ==
    /\ pc[p] \in StoreSteps
    /\ DaoReturn(p, "DB")
    /\ UNCHANGED <<books, patrons, pre, added, lent, granted>>

\* ------------------------------------------------------------- specifications
\* the requests that arrive name an isbn and a title of these sets
BeginLend(p, isbns, titles) ==
    \/ BeginAddBook(p, isbns, titles, RaceAuthors, ValidShapes)
    \/ BeginCheckout(p, isbns)
    \/ BeginReturn(p, isbns)

Begin(p, isbns, titles) == BeginLend(p, isbns, titles) \/ BeginClear(p)

StepLend(p) ==
    \/ AbFind(p) \/ AbUpdate(p) \/ AbInsert(p)
    \/ CoFindBook(p) \/ CoFindPatron(p) \/ CoDec(p) \/ CoHold(p)
    \/ RbFindPatron(p) \/ RbInc(p) \/ RbPull(p)

Step(p) == StepLend(p) \/ ClBooks(p) \/ ClPatrons(p)

\* requests for one title interleave at their store round-trips; the store
\* never fails
Next == \E p \in Procs : Begin(p, RaceIsbns, RaceTitles) \/ Step(p)
Spec == Init /\ [][Next]_vars

\* the same without clear requests
NextLend == \E p \in Procs : BeginLend(p, RaceIsbns, RaceTitles) \/ StepLend(p)
SpecLend == Init /\ [][NextLend]_vars

\* one request at a time, served by one handler; the store never fails
NextSeq == Begin(1, Isbns, Titles) \/ Step(1)
SpecSeq == InitSeq /\ [][NextSeq]_vars

\* one request at a time, all for one isbn; any store round-trip may fail
NextFault == Begin(1, RaceIsbns, Titles) \/ Step(1) \/ StoreFault(1)
SpecFault == InitSeq /\ [][NextFault]_vars

\* one request at a time; the fields of the requests have any shape, and
\* of the requests that pass the checks those that add a book are served
NextShape ==
    \/ BeginAddBook(1, RaceIsbns, RaceTitles, RaceAuthors, AddBookShapes)
    \/ BeginCheckout(1, {})
    \/ BeginReturn(1, {})
    \/ BeginFindBooks(1, AnySearches, AnyIndexes, AnyCounts)
    \/ AbFind(1) \/ AbUpdate(1) \/ AbInsert(1)
    \/ FbFind(1)
SpecShape == InitSeq /\ [][NextShape]_vars

\* one request at a time: books of several titles and authors are added,
\* and searched for
NextFind ==
    \/ BeginAddBook(1, Isbns, FindTitles, FindAuthors, ValidShapes)
    \/ AbFind(1) \/ AbUpdate(1) \/ AbInsert(1)
    \/ BeginFindBooks(1, WordSearches, ValidIndexes, ValidCounts)
    \/ FbFind(1)
SpecFind == InitSeq /\ [][NextFind]_vars

\* ------------------------------------------------------------- claims
Done(p, op) == pc[p] = "done" /\ req[p].op = op
Lending(p, op) ==
    Done(p, op) /\ req[p].patronId \in PatronIds /\ req[p].isbn \in Isbns

\* C1: in every reachable state, under any interleaving of requests, every
\* stored Book has nCopies >= 0.
CopiesNeverNegative == \A k \in DOMAIN books : books[k].nCopies >= 0

\* C2: in every reachable state, for each isbn, the number of Patron records
\* whose checkedOutBooks contains it is at most the number of copies added
\* for it by successful addBook calls since the last clear.
HoldersWithinCopiesAdded ==
    \A i \in Isbns : Cardinality(Holders(patrons, i)) <= added[i]

\* C3: of two concurrent checkoutBook requests by one patron for one isbn,
\* at most one succeeds: the request that comes to write its hold when the
\* other has written the same hold since this one read the patron does not
\* return success, and its decrement does not stay applied.
ConcurrentDuplicateCheckoutFails ==
    [][\A p \in Procs :
        (/\ pc[p] = "co_hold"
         /\ pc'[p] = "done"
         /\ Holds(patrons, req[p].patronId, req[p].isbn))
        => /\ res'[p] # "OK"
           /\ lent'[req[p].isbn] = lent[req[p].isbn] - 1]_vars

\* C4: when the decrement of a checkoutBook has been applied and its hold
\* write fails, the request returns with nCopies back at the value it had
\* before the request.
FailedHoldWriteCompensated ==
    [][\A p \in Procs :
        (/\ pc[p] = "co_hold"
         /\ pc'[p] = "done"
         /\ res'[p] # "OK")
        => CopiesOf(books', req[p].isbn) = CopiesOf(pre[p].books, req[p].isbn)]_vars

\* C5: with one request at a time, a returnBook that follows a successful
\* checkoutBook by the same patron for the same isbn succeeds, leaves nCopies
\* at its value before the checkout, and removes the isbn from the patron's
\* checkedOutBooks.
CheckoutReturnRoundTrip ==
    \A p \in Procs :
        (/\ Lending(p, "returnBook")
         /\ pre[p].last.patronId = req[p].patronId
         /\ pre[p].last.isbn = req[p].isbn)
        => /\ res[p] = "OK"
           /\ CopiesOf(books, req[p].isbn) = pre[p].last.nCopies
           /\ ~Holds(patrons, req[p].patronId, req[p].isbn)

\* a return that followed a successful checkout of the same pair has completed
RoundTripDone ==
    \E p \in Procs :
        /\ Lending(p, "returnBook")
        /\ pre[p].last.patronId = req[p].patronId
        /\ pre[p].last.isbn = req[p].isbn
        /\ res[p] = "OK"
        /\ pre[p].last.nCopies > 0

\* C6: a checkoutBook for an existing isbn whose stored nCopies is 0 fails
\* with BAD_REQ and leaves the books and every Patron record as they were.
CheckoutWithoutCopiesRejected ==
    \A p \in Procs :
        (/\ Lending(p, "checkoutBook")
         /\ HasBook(pre[p].books, req[p].isbn)
         /\ CopiesOf(pre[p].books, req[p].isbn) = 0)
        => /\ res[p] = "BAD_REQ"
           /\ books = pre[p].books
           /\ patrons = pre[p].patrons

\* a checkout of a title with no copies left, by a patron without a record,
\* has completed
CheckoutWithoutCopiesDone ==
    \E p \in Procs :
        /\ Lending(p, "checkoutBook")
        /\ HasBook(pre[p].books, req[p].isbn)
        /\ CopiesOf(pre[p].books, req[p].isbn) = 0
        /\ ~pre[p].patrons[req[p].patronId].exists
        /\ res[p] = "BAD_REQ"

\* C7: after a patron's checkoutBook of an isbn has succeeded and before that
\* patron returns it, a second checkoutBook by the patron for the isbn fails
\* with BAD_REQ and changes neither the Book's nCopies nor the patron's
\* checkedOutBooks, also when copies are available.
SecondCheckoutRejected ==
    \A p \in Procs :
        (/\ Lending(p, "checkoutBook")
         /\ <<req[p].patronId, req[p].isbn>> \in pre[p].granted)
        => /\ res[p] = "BAD_REQ"
           /\ CopiesOf(books, req[p].isbn) = CopiesOf(pre[p].books, req[p].isbn)
           /\ patrons[req[p].patronId] = pre[p].patrons[req[p].patronId]

\* a second checkout of a held title that still has copies has completed
SecondCheckoutDone ==
    \E p \in Procs :
        /\ Lending(p, "checkoutBook")
        /\ <<req[p].patronId, req[p].isbn>> \in pre[p].granted
        /\ CopiesOf(pre[p].books, req[p].isbn) > 0
        /\ res[p] = "BAD_REQ"

\* C8: an addBook whose request passes every field check, and whose isbn is
\* stored with another title, fails with BAD_REQ and leaves the stored Book
\* record, nCopies included, as it was.
DifferingTitleRejected ==
    \A p \in Procs :
        (/\ Done(p, "addBook")
         /\ AddBookCheck(req[p].shape) = "OK"
         /\ HasBook(pre[p].books, req[p].isbn)
         /\ TitleOf(pre[p].books, req[p].isbn) # req[p].title)
        => /\ res[p] = "BAD_REQ"
           /\ HasBook(books, req[p].isbn)
           /\ books[FindOne(books, req[p].isbn)]
                = pre[p].books[FindOne(pre[p].books, req[p].isbn)]

\* C9: however many addBook requests for an isbn (all with the same
\* metadata) have succeeded, the books collection holds exactly one record
\* for it, and the record's nCopies is the sum of their nCopies less the
\* decrements and plus the increments applied by checkouts and returns.
OneRecordSumOfAdds ==
    \A i \in Isbns :
        /\ Cardinality(Records(books, i)) = (IF added[i] > 0 THEN 1 ELSE 0)
        /\ CopiesOf(books, i) = added[i] - lent[i]

\* more copies are stored than one addBook request can add, and a checkout
\* has been applied since
SeveralAddsDone ==
    /\ added["i1"] > MaxReqCopies
    /\ lent["i1"] > 0
    /\ CopiesOf(books, "i1") > 0

\* C10: an addBook whose existence check found nothing, and whose insert
\* comes after another insert of the same isbn, returns DB without another
\* attempt, and the books collection keeps exactly one record for the isbn.
DuplicateInsertIsDbError ==
    [][\A p \in Procs :
        (/\ pc[p] = "ab_insert"
         /\ pc'[p] # "ab_insert"
         /\ HasBook(books, req[p].isbn))
        => /\ pc'[p] = "done"
           /\ res'[p] = "DB"
           /\ Cardinality(Records(books', req[p].isbn)) = 1]_vars

\* two addBook requests for an absent isbn both found nothing, one has
\* inserted and returned, the other is about to insert
DuplicateInsertPending ==
    \E p, q \in Procs :
        /\ pc[p] = "ab_insert"
        /\ HasBook(books, req[p].isbn)
        /\ pc[q] = "done"
        /\ res[q] = "OK"

\* C11: a checkoutBook or returnBook whose DAO call ended on a failed store
\* round-trip returns DB, and one whose DAO call ended on a business rule
\* returns BAD_REQ.
StoreFailureIsDbRuleFailureIsBadReq ==
    \A p \in Procs :
        (Lending(p, "checkoutBook") \/ Lending(p, "returnBook"))
        => /\ dao[p] = "DB" => res[p] = "DB"
           /\ dao[p] = "BAD_REQ" => res[p] = "BAD_REQ"

\* C12: a clear whose DAO call ended on a failed store round-trip returns DB,
\* and a clear that returns success has emptied both collections.
ClearFailureIsDb ==
    \A p \in Procs :
        Done(p, "clear")
        => /\ dao[p] = "DB" => res[p] = "DB"
           /\ res[p] = "OK" => (books = <<>> /\ \A id \in PatronIds : ~patrons[id].exists)

\* C13: a returnBook by a patron whose record is absent, or does not contain
\* the isbn, fails with BAD_REQ and leaves the books and every Patron record
\* as they were.
ReturnWithoutHoldRejected ==
    \A p \in Procs :
        (/\ Lending(p, "returnBook")
         /\ req[p].isbn \notin pre[p].patrons[req[p].patronId].checkedOutBooks)
        => /\ res[p] = "BAD_REQ"
           /\ books = pre[p].books
           /\ patrons = pre[p].patrons

\* a return of a stored title has completed for a patron whose record holds
\* another title only
ReturnWithoutHoldDone ==
    \E p \in Procs :
        /\ Lending(p, "returnBook")
        /\ HasBook(pre[p].books, req[p].isbn)
        /\ pre[p].patrons[req[p].patronId].exists
        /\ pre[p].patrons[req[p].patronId].checkedOutBooks # {}
        /\ req[p].isbn \notin pre[p].patrons[req[p].patronId].checkedOutBooks
        /\ res[p] = "BAD_REQ"

\* the request has fields that its handler's checks do not pass
ShapeFails(r) ==
    CASE r.op = "addBook" -> AddBookCheck(r.shape) # "OK"
      [] r.op = "findBooks" -> FindBooksCheck(r.search) # "OK"
      [] r.op \in {"checkoutBook", "returnBook"} ->
            r.patronId = Falsy \/ r.isbn = Falsy
      [] OTHER -> FALSE

\* C14: an addBook, findBooks, checkoutBook or returnBook whose request
\* fields fail the handler's checks returns MISSING, BAD_TYPE or BAD_REQ
\* without a call of the DAO, and leaves both collections as they were.
ShapeFailureMakesNoStoreCall ==
    \A p \in Procs :
        (pc[p] = "done" /\ ShapeFails(req[p]))
        => /\ res[p] \in {"MISSING", "BAD_TYPE", "BAD_REQ"}
           /\ dao[p] = "none"
           /\ books = pre[p].books
           /\ patrons = pre[p].patrons

\* an addBook with a faulty field has been rejected while a book is stored
ShapeFailureDone ==
    \E p \in Procs :
        /\ Done(p, "addBook")
        /\ ShapeFails(req[p])
        /\ res[p] = "BAD_REQ"
        /\ books # <<>>

\* the word is read somewhere in chars, whatever the case
Occurs(word, chars) == \E k \in 1..Len(chars) : WordAt(word, chars, k)

\* the word occurs in the title or in one of the authors
InTitleOrAuthors(word, doc) ==
    \/ Occurs(word, doc.title)
    \/ \E k \in DOMAIN doc.authors : Occurs(word, doc.authors[k])

\* the findBooks request asks for the first DEFAULT_COUNT books found
FirstPage(r) == r.index = Absent /\ r.count = Absent

\* C15: a findBooks whose page takes in every book found returns a stored
\* book if and only if every word of the search occurs, whatever the case,
\* in the book's title or in one of its authors, each word on its own.
FindsBooksWithEveryWord ==
    \A p \in Procs :
        (Done(p, "findBooks") /\ res[p] = "OK" /\ FirstPage(req[p]))
        => \A k \in DOMAIN books :
               (\E j \in DOMAIN out[p] : out[p][j] = books[k])
               <=> \A w \in DOMAIN SearchWords(req[p].search.val) :
                       InTitleOrAuthors(SearchWords(req[p].search.val)[w], books[k])

\* C16: a findBooks with a valid index and count returns the elements at
\* positions [index, index + count) of the books found, in an order that
\* ascends by title; it returns the empty sequence when it finds none.
ReturnsPageOfSortedMatches ==
    \A p \in Procs :
        (Done(p, "findBooks") /\ res[p] = "OK")
        => LET found == Find(books, MultiWordSearch(SearchWords(req[p].search.val)))
               first == IndexOf(req[p].index) + 1
               end == IndexOf(req[p].index) + CountOf(req[p].count)
           IN  \E sorted \in Sort(found) :
                   out[p] = SubSeq(sorted, first,
                                   IF end < Len(sorted) THEN end ELSE Len(sorted))

\* C17: addBook returns MISSING when a required field is absent; otherwise
\* BAD_TYPE when isbn, title, publisher or authors has the wrong type;
\* otherwise BAD_REQ when the value of a field is invalid, pages and nCopies
\* that are not positive integers and a year out of range included.
AddBookErrorTiers ==
    \A p \in Procs :
        Done(p, "addBook")
        => LET sh == req[p].shape
           IN  CASE \E f \in RequiredFields : sh[f] = "absent" ->
                        res[p] = "MISSING"
                 [] OTHER ->
               CASE \E f \in {"isbn", "title", "publisher", "authors"} :
                        sh[f] = "wrongType" ->
                        res[p] = "BAD_TYPE"
                 [] OTHER ->
               CASE \E f \in RequiredFields : sh[f] = "wrongType" ->
                        res[p] \in {"BAD_TYPE", "BAD_REQ"}
                 [] OTHER ->
               CASE \E f \in RequiredFields : sh[f] = "invalid" ->
                        res[p] = "BAD_REQ"
                 [] OTHER -> TRUE

\* C18: a findBooks with words in its search returns BAD_TYPE for an index
\* or count that is given and is not a number, and BAD_REQ for one that is
\* negative; it puts the default in the place of an absent field only.
InvalidIndexOrCountRejected ==
    \A p \in Procs :
        (Done(p, "findBooks") /\ ~ShapeFails(req[p]))
        => LET fields == {req[p].index, req[p].count}
               notNumber == \E f \in fields : f.kind = "other"
               negative == \E f \in fields : f.kind = "number" /\ f.val < 0
           IN  /\ (notNumber /\ ~negative) => res[p] = "BAD_TYPE"
               /\ (negative /\ ~notNumber) => res[p] = "BAD_REQ"
               /\ (notNumber /\ negative) => res[p] \in {"BAD_TYPE", "BAD_REQ"}

\* C19: in every reachable state, also when returnBook requests of one
\* patron for one isbn interleave, each Book's nCopies is at most the number
\* of copies added for its isbn since the last clear.
CopiesWithinCopiesAdded ==
    \A i \in Isbns : CopiesOf(books, i) <= added[i]

\* C20: in every state where no request is in flight, reached by any
\* interleaving of addBook, checkoutBook and returnBook, the nCopies of each
\* isbn plus the number of patrons holding it is the number of copies added
\* for it.
CopiesConserved ==
    (\A p \in Procs : Quiet(p))
    => \A i \in Isbns :
           CopiesOf(books, i) + Cardinality(Holders(patrons, i)) = added[i]

====
